---- MODULE Spec2Model ----
(***************************************************************************)
(* State-machine model of rss-rag-ingest (src/main.go): the orchestrator   *)
(* loop of main(), the sqlite dedup store, the content cache and the two    *)
(* Open-WebUI calls of owuiSendKnowledge.                                   *)
(*                                                                          *)
(* Strings the code compares or concatenates character by character (feed  *)
(* ids, guids, the hash input) are sequences of one-character strings.      *)
(* Strings the code searches with strings.Contains (titles, Content-Type    *)
(* headers) are sequences of tokens, the searched literal being one token.  *)
(* The empty sequence is Go's "".                                           *)
(***************************************************************************)
EXTENDS Integers, Sequences, FiniteSets, TLC

\* Number of times the scheduler starts the program.
MaxRuns == 2
\* Number of environment failures (I/O, network, database errors) injected
\* over a behaviour.
MaxFaults == 2

EmptyStr == <<>>

(***************************************************************************)
(* Package-level variables, main.go:29-43.                                  *)
(***************************************************************************)
acceptedContentTypes ==
    <<"text/html", "text/plain", "text/markdown", "application/pdf">>

contentTypeExtensions ==
    ("text/html" :> ".html") @@ ("text/plain" :> ".txt") @@
    ("text/markdown" :> ".md") @@ ("application/pdf" :> ".pdf")

(***************************************************************************)
(* Inputs: config.yml, the feeds the parser returns, the HTTP responses.    *)
(***************************************************************************)
ContentDir == "content"

\* config.RSS: a link-following feed and a synthesis feed.  html_to_markdown
\* of the first feed is chosen in Init.
ConfigRSS(htmlToMd) ==
    << [Id |-> <<"a">>, Name |-> "blog", DataInLink |-> TRUE,
        AuthorOverride |-> EmptyStr, HtmlToMarkdown |-> htmlToMd,
        KnowledgeBaseId |-> "kb1"],
       [Id |-> <<"a", "-", "b">>, Name |-> "micro", DataInLink |-> FALSE,
        AuthorOverride |-> <<"Ann">>, HtmlToMarkdown |-> FALSE,
        KnowledgeBaseId |-> "kb2"] >>

\* gofeed.Item values.  PublishedParsed = EmptyStr is gofeed's nil pointer
\* (no parseable date).
ItemPlain ==
    [GUID |-> <<"c">>, Title |-> <<"Hello">>, Description |-> <<"World">>,
     Link |-> EmptyStr, Published |-> <<"2024-01-02T03:04:05Z">>,
     PublishedParsed |-> <<"2024-01-02 03:04:05">>, Authors |-> <<>>]
ItemEmptyPara ==
    [GUID |-> <<"b", "-", "c">>, Title |-> <<"Pic">>,
     Description |-> <<"<p></p>">>,
     Link |-> <<"http://x/1">>, Published |-> <<"2024-01-03T00:00:00Z">>,
     PublishedParsed |-> <<"2024-01-03 00:00:00">>, Authors |-> <<"Bob">>]
ItemNoTitle ==
    [GUID |-> <<"d">>, Title |-> EmptyStr, Description |-> <<"World">>,
     Link |-> <<"http://x/2">>, Published |-> <<"2024-01-04T00:00:00Z">>,
     PublishedParsed |-> <<"2024-01-04 00:00:00">>, Authors |-> <<>>]
ItemMarker ==
    [GUID |-> <<"e">>, Title |-> <<"Foo ", "[No Title]">>,
     Description |-> <<"World">>,
     Link |-> <<"http://x/3">>, Published |-> <<"2024-01-05T00:00:00Z">>,
     PublishedParsed |-> <<"2024-01-05 00:00:00">>, Authors |-> <<>>]
ItemNoDate ==
    [GUID |-> <<"f">>, Title |-> <<"Hello">>, Description |-> <<"World">>,
     Link |-> <<"http://x/4">>, Published |-> <<"yesterday">>,
     PublishedParsed |-> EmptyStr, Authors |-> <<>>]

\* feed.Items of the two feeds (guids unique within a feed).
LinkFeedChoices ==
    { <<>>, <<ItemEmptyPara>>, <<ItemPlain, ItemEmptyPara>>,
      <<ItemNoDate, ItemMarker>> }
SynthFeedChoices ==
    { <<ItemPlain>>, <<ItemEmptyPara, ItemPlain>>, <<ItemNoTitle, ItemPlain>>,
      <<ItemMarker, ItemPlain>>, <<ItemNoDate, ItemPlain>>,
      <<ItemPlain, ItemNoTitle>> }

FeedDescription == <<"desc">>

\* What hc.Do returns for the GET of an entry's link: a transport error, or a
\* response with a status, a Content-Type header and a body whose read
\* succeeds or fails.
FetchResponses ==
    { [err |-> TRUE, status |-> 0, ctype |-> EmptyStr, readOk |-> FALSE,
       body |-> <<>>],
      [err |-> FALSE, status |-> 200,
       ctype |-> <<"text/html", "; charset=utf-8">>, readOk |-> TRUE,
       body |-> <<"<h1>", "<p>">>],
      [err |-> FALSE, status |-> 200,
       ctype |-> <<"text/html", "; charset=utf-8">>, readOk |-> TRUE,
       body |-> <<"<p>">>],
      [err |-> FALSE, status |-> 200,
       ctype |-> <<"text/html", "; charset=utf-8">>, readOk |-> FALSE,
       body |-> <<>>],
      [err |-> FALSE, status |-> 200, ctype |-> <<"application/pdf">>,
       readOk |-> TRUE, body |-> <<"%PDF">>],
      [err |-> FALSE, status |-> 200, ctype |-> <<"application/json">>,
       readOk |-> TRUE, body |-> <<"{}">>],
      [err |-> FALSE, status |-> 200, ctype |-> EmptyStr,
       readOk |-> TRUE, body |-> <<"raw">>],
      [err |-> FALSE, status |-> 404,
       ctype |-> <<"text/html", "; charset=utf-8">>, readOk |-> TRUE,
       body |-> <<"<h1>", "<p>">>] }

\* An empty URL has no protocol scheme: hc.Do returns an error.
ResponsesFor(url) ==
    IF url = EmptyStr THEN {r \in FetchResponses : r.err} ELSE FetchResponses

NoResponse ==
    [err |-> FALSE, status |-> -1, ctype |-> EmptyStr, readOk |-> FALSE,
     body |-> <<>>]

(***************************************************************************)
(* Pure functions.                                                          *)
(***************************************************************************)
\* strings.Contains on token sequences.
Contains(s, tok) == \E i \in 1..Len(s) : s[i] = tok

\* sha256.Sum256 followed by %x: a collision-free digest, represented by its
\* tagged preimage.
Sum256Hex(bytes) == <<"sha256">> \o bytes

\* The digest input built from the pair: fmt.Sprintf("%s-%s", rssId, guid).
HashInput(rssId, guid) == rssId \o <<"-">> \o guid

genItemHash(rssId, guid) == Sum256Hex(HashInput(rssId, guid))

\* hash[0:6]: the first six hex characters, a function of the digest.
HashPrefix(hash) == <<"hex6">> \o SubSeq(hash, 2, Len(hash))

\* The loop of fetchContent, main.go:305-317: the first accepted type, in the
\* order of acceptedContentTypes, that the header contains.
RECURSIVE MatchAccepted(_, _)
MatchAccepted(resContent, i) ==
    IF i > Len(acceptedContentTypes) THEN EmptyStr
    ELSE IF Contains(resContent, acceptedContentTypes[i])
         THEN <<acceptedContentTypes[i]>>
         ELSE MatchAccepted(resContent, i + 1)

\* fetchContent, main.go:285-326: [ok, content, contentType].
FetchFail == [ok |-> FALSE, content |-> <<>>, contentType |-> EmptyStr]
\* Mutant of fetchContent: foundAccepted is not tested, so a response of no
\* accepted type goes on with the initial contentType "text/html".
fetchContentNoGate(res) ==
    IF res.err THEN FetchFail
    ELSE IF res.status # 200 THEN FetchFail
    ELSE IF ~res.readOk THEN FetchFail
    ELSE [ok |-> TRUE, content |-> res.body,
          contentType |-> IF MatchAccepted(res.ctype, 1) = EmptyStr
                          THEN <<"text/html">>
                          ELSE MatchAccepted(res.ctype, 1)]
fetchContent(res) ==
    IF res.err THEN FetchFail
    ELSE IF res.status # 200 THEN FetchFail
    ELSE IF MatchAccepted(res.ctype, 1) = EmptyStr THEN FetchFail
    ELSE IF ~res.readOk THEN FetchFail
    ELSE [ok |-> TRUE, content |-> res.body,
          contentType |-> MatchAccepted(res.ctype, 1)]

\* html2text.FromString: the rendered text of the document.
Html2Text(html) == <<"md">> \o html

\* Mutant of SkipPlaceholder: both conditions are required.
SkipPlaceholderAnd(item) ==
    item.Description = <<"<p></p>">> /\ item.Title = EmptyStr
\* The skip filters of synthesis mode, main.go:147-155.
SkipPlaceholder(item) ==
    item.Description = <<"<p></p>">> \/ item.Title = EmptyStr
SkipMarker(item) == Contains(item.Title, "[No Title]")

\* The cache file paths, main.go:131 and main.go:157.
LinkFilePath(ep, item, hash, contentType) ==
    [dir |-> ContentDir, name |-> ep.Name, stamp |-> item.PublishedParsed,
     prefix |-> HashPrefix(hash), ext |-> contentTypeExtensions[contentType[1]]]
SynthFilePath(ep, item, hash) ==
    [dir |-> ContentDir, name |-> ep.Name, stamp |-> item.PublishedParsed,
     prefix |-> HashPrefix(hash), ext |-> ".md"]

\* The synthesized Markdown document, main.go:166-182.
MetadataMd(ep, item) ==
    (IF item.Link # EmptyStr THEN <<"* **Link**: ">> \o item.Link ELSE <<>>)
    \o (IF ep.AuthorOverride # EmptyStr
        THEN <<"* **Author**: ">> \o ep.AuthorOverride
        ELSE [i \in 1..(2 * Len(item.Authors)) |->
                IF i % 2 = 1 THEN "* **Author**: "
                ELSE item.Authors[i \div 2]])
SynthBody(ep, item) ==
    <<"# ", ep.Name, " [">> \o FeedDescription \o <<"]", "## ">>
    \o item.Published \o MetadataMd(ep, item) \o item.Description

\* os.OpenFile(O_CREATE|O_WRONLY) followed by Write: the bytes are written
\* from offset 0 over what the file held; nothing truncates it.
WriteOver(old, new) ==
    IF Len(old) > Len(new) THEN new \o SubSeq(old, Len(new) + 1, Len(old))
    ELSE new

(***************************************************************************)
(* The dedup store: the sqlite table rss_records.                           *)
(***************************************************************************)
NoTable == [exists |-> FALSE, primaryKey |-> FALSE, uniqueHash |-> FALSE,
            rows |-> <<>>]

\* Mutant of CreateStmt: the table is created without its constraints.
CreateStmtNoKey ==
    [exists |-> TRUE, primaryKey |-> FALSE, uniqueHash |-> FALSE,
     rows |-> <<>>]
\* The create statement of createRSSRecordsTable, main.go:246:
\* PRIMARY KEY (rss_id, guid), UNIQUE(hash).
CreateStmt ==
    [exists |-> TRUE, primaryKey |-> TRUE, uniqueHash |-> TRUE, rows |-> <<>>]

\* createRSSRecordsTable, main.go:237-252: creates the table only if absent.
createRSSRecordsTable(table) == IF table.exists THEN table ELSE CreateStmt

\* SELECT hash ... WHERE rss_id=? AND guid=?, first row; EmptyStr if none.
SelectHash(table, rssId, guid) ==
    LET hit == {i \in 1..Len(table.rows) :
                  table.rows[i].rss_id = rssId /\ table.rows[i].guid = guid}
    IN IF hit = {} THEN EmptyStr
       ELSE table.rows[CHOOSE i \in hit : \A j \in hit : i <= j].hash

\* findItemInDB, main.go:261-283: a query or scan error returns "".
findItemInDB(table, rssId, guid, queryOk) ==
    IF ~queryOk THEN EmptyStr ELSE SelectHash(table, rssId, guid)

\* Whether sqlite rejects the insert under the table's constraints.
Conflicts(table, row) ==
    \/ table.primaryKey /\ \E i \in 1..Len(table.rows) :
          table.rows[i].rss_id = row.rss_id /\ table.rows[i].guid = row.guid
    \/ table.uniqueHash /\ \E i \in 1..Len(table.rows) :
          table.rows[i].hash = row.hash

\* recordItemInDB, main.go:401-416: [ok, table].
recordItemInDB(table, rssId, guid, hash, execOk) ==
    LET row == [rss_id |-> rssId, guid |-> guid, hash |-> hash]
    IN IF ~execOk \/ Conflicts(table, row)
       THEN [ok |-> FALSE, table |-> table]
       ELSE [ok |-> TRUE,
             table |-> [table EXCEPT !.rows = Append(table.rows, row)]]

(***************************************************************************)
(* State.                                                                   *)
(***************************************************************************)
VARIABLES
    config,      \* config.RSS, as loadConfig returns it
    feedItems,   \* feedItems[f]: the items the feed of endpoint f serves
    run,         \* number of runs started
    faults,      \* number of environment failures so far
    pc,          \* where main() is
    feedIdx,     \* index of rssEndpoint in config.RSS
    itemIdx,     \* index of rssItem in feed.Items
    hash,        \* main's local hash
    content,     \* main's local *content (hasContent: content != nil)
    hasContent,
    contentType, \* main's local contentType
    fileName,    \* main's local fileName (NoPath: "")
    db,          \* the table rss_records
    files,       \* the content directory: path -> bytes
    uploads,     \* remote file endpoint: files stored, per entry
    runUploads,  \* the same, for the run in progress
    lookupRes,   \* what findItemInDB returned for the entry in progress
    resp,        \* the response to the GET of the entry in progress
    stages,      \* the stages executed for the entry in progress, in order
    outcome,     \* terminal state of the entry in progress: Skipped,
                 \* Submitted, Failed (an environment error) or Conflict
                 \* (the insert was rejected by a constraint of the table)
    seenItems,   \* items of the feeds parsed in this run
    doneItems,   \* entries brought to a terminal state in this run
    sent,        \* the upload call made for the entry in progress: the file
                 \* name declared in the multipart form and how it ended
    handles,     \* cache file handles the process holds open
    other        \* a second orchestrator process on the same store: the
                 \* entry it is submitting and how far it got

inputVars == <<config, feedItems>>
localVars == <<hash, content, hasContent, contentType, fileName>>
posVars   == <<feedIdx, itemIdx>>
vars == <<config, feedItems, run, faults, pc, feedIdx, itemIdx, hash, content,
          hasContent, contentType, fileName, db, files, uploads, runUploads,
          lookupRes, resp, stages, outcome, seenItems, doneItems, sent,
          handles, other>>

NoPath == [dir |-> "", name |-> "", stamp |-> <<>>, prefix |-> <<>>,
           ext |-> ""]
NoUpload == [name |-> NoPath, res |-> "none"]
NoOther == [entry |-> <<EmptyStr, EmptyStr>>, stage |-> "none"]

\* The entries the configured feeds serve, as (feed id, guid) pairs.
EntriesOf(cfg, items) ==
    UNION {{<<cfg[f].Id, items[f][i].GUID>> : i \in 1..Len(items[f])} :
             f \in 1..Len(cfg)}
Entries == EntriesOf(config, feedItems)

\* The endpoint, the item and the entry in progress.
Endpoint == config[feedIdx]
Item == feedItems[feedIdx][itemIdx]
Entry == <<Endpoint.Id, Item.GUID>>

Init ==
    /\ \E h \in BOOLEAN : config = ConfigRSS(h)
    /\ \E lf \in LinkFeedChoices, sf \in SynthFeedChoices :
          feedItems = <<lf, sf>>
    /\ run = 0 /\ faults = 0 /\ pc = "idle"
    /\ feedIdx = 1 /\ itemIdx = 1
    /\ hash = EmptyStr /\ content = <<>> /\ hasContent = FALSE
    /\ contentType = EmptyStr /\ fileName = NoPath
    /\ db = NoTable
    /\ files = <<>>
    /\ uploads = [e \in EntriesOf(config, feedItems) |-> 0]
    /\ runUploads = [e \in EntriesOf(config, feedItems) |-> 0]
    /\ lookupRes = EmptyStr /\ resp = NoResponse /\ stages = <<>>
    /\ outcome = "none" /\ seenItems = 0 /\ doneItems = 0
    /\ sent = NoUpload /\ handles = 0 /\ other = NoOther

\* main.go:93-95: the locals of one loop iteration, as declared.
ResetLocals ==
    /\ hash' = EmptyStr /\ content' = <<>> /\ hasContent' = FALSE
    /\ contentType' = EmptyStr /\ fileName' = NoPath
    /\ lookupRes' = EmptyStr /\ resp' = NoResponse /\ stages' = <<>>
    /\ outcome' = "none" /\ sent' = NoUpload

\* `continue` (or the end of the loop body): the entry is in a terminal state.
Continue(outc, did) ==
    /\ pc' = "iterEnd" /\ outcome' = outc /\ stages' = stages \o did
    /\ doneItems' = doneItems + 1

\* A panic: the process dies where it is, the deferred closes having run.
Panic(did) ==
    /\ pc' = "crashed" /\ stages' = stages \o did
    /\ handles' = 0
    /\ UNCHANGED <<outcome, doneItems>>

\* An environment failure is injected only while the budget lasts.
CanFail == faults < MaxFaults
Fault(failed) == faults' = IF failed THEN faults + 1 ELSE faults

(***************************************************************************)
(* main.go:71-83: the scheduler starts the program; loadConfig, sql.Open    *)
(* and createRSSRecordsTable panic on failure.                              *)
(***************************************************************************)
StartRun ==
    /\ pc \in {"idle", "crashed", "initFailed"}
    /\ run < MaxRuns
    /\ run' = run + 1
    /\ \E ok \in BOOLEAN :
         /\ ok \/ CanFail
         /\ Fault(~ok)
         /\ IF ok
            THEN /\ db' = createRSSRecordsTable(db)
                 /\ pc' = "feed"
            ELSE /\ db' = db
                 /\ pc' = "initFailed"
    /\ feedIdx' = 1 /\ itemIdx' = 1
    /\ ResetLocals
    /\ runUploads' = [e \in Entries |-> 0]
    /\ seenItems' = 0 /\ doneItems' = 0
    /\ handles' = 0
    /\ UNCHANGED <<inputVars, other, files, uploads>>

\* main.go:85-90: fp.ParseURL of the next endpoint; an error skips the feed.
ParseFeed ==
    /\ pc = "feed" /\ feedIdx <= Len(config)
    /\ \E ok \in BOOLEAN :
         /\ ok \/ CanFail
         /\ Fault(~ok)
         /\ IF ok
            THEN /\ pc' = "item" /\ itemIdx' = 1 /\ feedIdx' = feedIdx
                 /\ seenItems' = seenItems + Len(feedItems[feedIdx])
            ELSE /\ pc' = "feed" /\ feedIdx' = feedIdx + 1
                 /\ UNCHANGED <<itemIdx, seenItems>>
    /\ UNCHANGED <<inputVars, other, sent, handles, run, localVars, db, files, uploads, runUploads,
                   lookupRes, resp, stages, outcome, doneItems>>

\* main.go:92: the range over feed.Items is exhausted.
EndFeed ==
    /\ pc = "item" /\ itemIdx > Len(feedItems[feedIdx])
    /\ pc' = "feed" /\ feedIdx' = feedIdx + 1
    /\ UNCHANGED <<inputVars, other, sent, handles, run, faults, itemIdx, localVars, db, files,
                   uploads, runUploads, lookupRes, resp, stages, outcome,
                   seenItems, doneItems>>

\* main.go:85, 212: the range over config.RSS is exhausted; main returns.
EndRun ==
    /\ pc = "feed" /\ feedIdx > Len(config)
    /\ pc' = "idle"
    /\ handles' = 0
    /\ UNCHANGED <<inputVars, other, sent, run, faults, posVars, localVars, db, files,
                   uploads, runUploads, lookupRes, resp, stages, outcome,
                   seenItems, doneItems>>

\* Mutant of LookupItem: the result of the lookup is not tested.
LookupItemNoSkip ==
    /\ pc = "item" /\ itemIdx <= Len(feedItems[feedIdx])
    /\ \E queryOk \in BOOLEAN :
         /\ queryOk \/ CanFail
         /\ Fault(~queryOk)
         /\ lookupRes' = findItemInDB(db, Endpoint.Id, Item.GUID, queryOk)
         /\ hash' = genItemHash(Endpoint.Id, Item.GUID)
         /\ pc' = "resolve"
         /\ stages' = stages \o <<"lookup", "hash">>
         /\ UNCHANGED <<outcome, doneItems>>
    /\ UNCHANGED <<inputVars, other, sent, handles, run, posVars, content, hasContent, contentType,
                   fileName, db, files, uploads, runUploads, resp, seenItems>>

\* main.go:97-103: the dedup lookup; a hit skips the entry, otherwise the
\* hash is computed.
LookupItem ==
    /\ pc = "item" /\ itemIdx <= Len(feedItems[feedIdx])
    /\ \E queryOk \in BOOLEAN :
         /\ queryOk \/ CanFail
         /\ Fault(~queryOk)
         /\ LET found == findItemInDB(db, Endpoint.Id, Item.GUID, queryOk)
            IN /\ lookupRes' = found
               /\ IF found # EmptyStr
                  THEN /\ hash' = found
                       /\ Continue("Skipped", <<"lookup">>)
                  ELSE /\ hash' = genItemHash(Endpoint.Id, Item.GUID)
                       /\ pc' = "resolve"
                       /\ stages' = stages \o <<"lookup", "hash">>
                       /\ UNCHANGED <<outcome, doneItems>>
    /\ UNCHANGED <<inputVars, other, sent, handles, run, posVars, content, hasContent, contentType,
                   fileName, db, files, uploads, runUploads, resp, seenItems>>

\* main.go:92-95: the next iteration of the item loop.
NextItem ==
    /\ pc = "iterEnd"
    /\ pc' = "item" /\ itemIdx' = itemIdx + 1
    /\ ResetLocals
    /\ UNCHANGED <<inputVars, other, handles, run, faults, feedIdx, db, files, uploads,
                   runUploads, seenItems, doneItems>>

(***************************************************************************)
(* Content resolution.                                                      *)
(***************************************************************************)
\* Mutant of FetchLink: data_in_link is not tested.
FetchLinkAnyMode ==
    /\ pc = "resolve"
    /\ \E res \in ResponsesFor(Item.Link) :
         LET got == fetchContent(res)
         IN /\ got.ok \/ Item.Link = EmptyStr \/ CanFail
            /\ Fault(~got.ok /\ Item.Link # EmptyStr)
            /\ resp' = res
            /\ IF ~got.ok
               THEN /\ Continue("Failed", <<"fetch">>)
                    /\ UNCHANGED <<content, hasContent, contentType>>
               ELSE /\ content' = got.content /\ hasContent' = TRUE
                    /\ contentType' = got.contentType
                    /\ stages' = stages \o <<"fetch">>
                    /\ pc' = IF got.contentType = <<"text/html">>
                                /\ Endpoint.HtmlToMarkdown
                             THEN "convert" ELSE "cache"
                    /\ UNCHANGED <<outcome, doneItems>>
    /\ UNCHANGED <<inputVars, other, sent, handles, run, posVars, hash, fileName, db, files, uploads,
                   runUploads, lookupRes, seenItems>>

\* main.go:105-128 up to the conversion: the GET of the entry's link.  The
\* failure of the GET of an empty link is the input's, not the environment's.
FetchLink ==
    /\ pc = "resolve" /\ Endpoint.DataInLink
    /\ \E res \in ResponsesFor(Item.Link) :
         LET got == fetchContent(res)
         IN /\ got.ok \/ Item.Link = EmptyStr \/ CanFail
            /\ Fault(~got.ok /\ Item.Link # EmptyStr)
            /\ resp' = res
            /\ IF ~got.ok
               THEN /\ Continue("Failed", <<"fetch">>)
                    /\ UNCHANGED <<content, hasContent, contentType>>
               ELSE /\ content' = got.content /\ hasContent' = TRUE
                    /\ contentType' = got.contentType
                    /\ stages' = stages \o <<"fetch">>
                    /\ pc' = IF got.contentType = <<"text/html">>
                                /\ Endpoint.HtmlToMarkdown
                             THEN "convert" ELSE "cache"
                    /\ UNCHANGED <<outcome, doneItems>>
    /\ UNCHANGED <<inputVars, other, sent, handles, run, posVars, hash, fileName, db, files, uploads,
                   runUploads, lookupRes, seenItems>>

\* main.go:115-128: html2text; an error abandons the entry.
ConvertHtml ==
    /\ pc = "convert"
    /\ \E ok \in BOOLEAN :
         /\ ok \/ CanFail
         /\ Fault(~ok)
         /\ IF ok
            THEN /\ content' = Html2Text(content)
                 /\ contentType' = <<"text/markdown">>
                 /\ pc' = "cache" /\ stages' = stages \o <<"convert">>
                 /\ UNCHANGED <<outcome, doneItems>>
            ELSE /\ Continue("Failed", <<"convert">>)
                 /\ UNCHANGED <<content, contentType>>
    /\ UNCHANGED <<inputVars, other, sent, handles, run, posVars, hash, hasContent, fileName, db,
                   files, uploads, runUploads, lookupRes, resp, seenItems>>

\* What the content directory holds after OpenFile succeeded and Write wrote
\* `bytes` (none, when Write failed).
Written(dir, path, bytes) ==
    (path :> WriteOver(IF path \in DOMAIN dir THEN dir[path] ELSE <<>>, bytes))
    @@ dir

\* main.go:130-143: the cache write of link-following mode.  Formatting a nil
\* PublishedParsed panics.
CacheWriteLink ==
    /\ pc = "cache"
    /\ IF Item.PublishedParsed = EmptyStr
       THEN /\ Panic(<<"cache">>)
            /\ UNCHANGED <<faults, fileName, files>>
       ELSE LET path == LinkFilePath(Endpoint, Item, hash, contentType)
            IN \E openOk, writeOk \in BOOLEAN :
                 /\ (openOk /\ writeOk) \/ CanFail
                 /\ openOk \/ writeOk
                 /\ Fault(~(openOk /\ writeOk))
                 /\ IF ~openOk
                    THEN /\ Continue("Failed", <<"cache">>)
                         /\ UNCHANGED <<fileName, files, handles>>
                    ELSE /\ fileName' = path
                         /\ handles' = handles + 1
                         /\ IF ~writeOk
                            THEN /\ files' = Written(files, path, <<>>)
                                 /\ Continue("Failed", <<"cache">>)
                            ELSE /\ files' = Written(files, path, content)
                                 /\ pc' = "upload"
                                 /\ stages' = stages \o <<"cache">>
                                 /\ UNCHANGED <<outcome, doneItems>>
    /\ UNCHANGED <<inputVars, other, sent, run, posVars, hash, content, hasContent,
                   contentType, db, uploads, runUploads, lookupRes, resp,
                   seenItems>>

\* main.go:144-192: synthesis mode: the skip filters, then the Markdown file.
SynthesizeAndCache ==
    /\ pc = "resolve" /\ ~Endpoint.DataInLink
    /\ IF SkipPlaceholder(Item) \/ SkipMarker(Item)
       THEN /\ Continue("Skipped", <<"filter">>)
            /\ UNCHANGED <<faults, content, hasContent, fileName, files,
                           handles>>
       ELSE IF Item.PublishedParsed = EmptyStr
       THEN /\ Panic(<<"filter", "synth">>)
            /\ UNCHANGED <<faults, content, hasContent, fileName, files>>
       ELSE LET path == SynthFilePath(Endpoint, Item, hash)
                body == SynthBody(Endpoint, Item)
            IN \E openOk, writeOk \in BOOLEAN :
                 /\ (openOk /\ writeOk) \/ CanFail
                 /\ openOk \/ writeOk
                 /\ Fault(~(openOk /\ writeOk))
                 /\ IF ~openOk
                    THEN /\ Continue("Failed", <<"filter", "synth", "cache">>)
                         /\ UNCHANGED <<content, hasContent, fileName, files,
                                        handles>>
                    ELSE /\ fileName' = path
                         /\ handles' = handles + 1
                         /\ IF ~writeOk
                            THEN /\ files' = Written(files, path, <<>>)
                                 /\ Continue("Failed",
                                             <<"filter", "synth", "cache">>)
                                 /\ UNCHANGED <<content, hasContent>>
                            ELSE /\ files' = Written(files, path, body)
                                 /\ content' = body /\ hasContent' = TRUE
                                 /\ pc' = "upload"
                                 /\ stages' = stages
                                       \o <<"filter", "synth", "cache">>
                                 /\ UNCHANGED <<outcome, doneItems>>
    /\ UNCHANGED <<inputVars, other, sent, run, posVars, hash, contentType, db, uploads,
                   runUploads, lookupRes, resp, seenItems>>

(***************************************************************************)
(* Remote submission and recording.                                         *)
(***************************************************************************)
\* What the POST to /v1/files/ can end in, main.go:334-376:
\*   notSent  the form or request could not be built, or hc.Do failed
\*   lost     the server stored the file, reading the response body failed
\*   badBody  the response body does not unmarshal
\*   noId     the response has no string "id": the type assertion panics
\*   ok       the server stored the file and returned its id
UploadOutcomes == {"notSent", "lost", "badBody", "noId", "ok"}
Stored(o) == o \in {"lost", "ok"}

\* Mutant of Upload: the error of an unreadable response body is dropped and
\* the link request is issued all the same.
UploadUnchecked ==
    /\ pc = "upload"
    /\ IF fileName # NoPath /\ hasContent
       THEN \E o \in UploadOutcomes :
              /\ o = "ok" \/ CanFail
              /\ Fault(o # "ok")
              /\ sent' = [name |-> fileName, res |-> o]
              /\ uploads' = IF Stored(o)
                            THEN [uploads EXCEPT ![Entry] = @ + 1]
                            ELSE uploads
              /\ runUploads' = IF Stored(o)
                               THEN [runUploads EXCEPT ![Entry] = @ + 1]
                               ELSE runUploads
              /\ IF o \in {"ok", "badBody"}
                 THEN /\ pc' = "link" /\ stages' = stages \o <<"upload">>
                      /\ UNCHANGED <<outcome, doneItems, handles>>
                 ELSE IF o = "noId"
                 THEN Panic(<<"upload">>)
                 ELSE /\ Continue("Failed", <<"upload">>)
                      /\ UNCHANGED handles
       ELSE /\ Continue("Skipped", <<>>)
            /\ UNCHANGED <<faults, uploads, runUploads, sent, handles>>
    /\ UNCHANGED <<inputVars, other, run, posVars, localVars, db, files, lookupRes,
                   resp, seenItems>>

\* main.go:194-195 and owuiSendKnowledge part 1, main.go:328-376.
Upload ==
    /\ pc = "upload"
    /\ IF fileName # NoPath /\ hasContent
       THEN \E o \in UploadOutcomes :
              /\ o = "ok" \/ CanFail
              /\ Fault(o # "ok")
              /\ sent' = [name |-> fileName, res |-> o]
              /\ uploads' = IF Stored(o)
                            THEN [uploads EXCEPT ![Entry] = @ + 1]
                            ELSE uploads
              /\ runUploads' = IF Stored(o)
                               THEN [runUploads EXCEPT ![Entry] = @ + 1]
                               ELSE runUploads
              /\ IF o = "ok"
                 THEN /\ pc' = "link" /\ stages' = stages \o <<"upload">>
                      /\ UNCHANGED <<outcome, doneItems, handles>>
                 ELSE IF o = "noId"
                 THEN Panic(<<"upload">>)
                 ELSE /\ Continue("Failed", <<"upload">>)
                      /\ UNCHANGED handles
       ELSE /\ Continue("Skipped", <<>>)
            /\ UNCHANGED <<faults, uploads, runUploads, sent, handles>>
    /\ UNCHANGED <<inputVars, other, run, posVars, localVars, db, files, lookupRes,
                   resp, seenItems>>

\* What the POST to /v1/knowledge/<id>/file/add can end in, main.go:382-398.
LinkOutcomes == {"doErr", "non200", "ok"}

\* Mutant of Link: the status of the response is not tested.
LinkUnchecked ==
    /\ pc = "link"
    /\ \E o \in LinkOutcomes :
         /\ o = "ok" \/ CanFail
         /\ Fault(o # "ok")
         /\ IF o \in {"ok", "non200"}
            THEN /\ pc' = "record"
                 /\ stages' = stages \o (IF o = "ok" THEN <<"link">>
                                          ELSE <<>>)
                 /\ UNCHANGED <<outcome, doneItems>>
            ELSE Continue("Failed", <<"link">>)
    /\ UNCHANGED <<inputVars, other, sent, handles, run, posVars, localVars, db, files, uploads,
                   runUploads, lookupRes, resp, seenItems>>

\* owuiSendKnowledge part 2, main.go:373-399, and main.go:196-200.
Link ==
    /\ pc = "link"
    /\ \E o \in LinkOutcomes :
         /\ o = "ok" \/ CanFail
         /\ Fault(o # "ok")
         /\ IF o = "ok"
            THEN /\ pc' = "record" /\ stages' = stages \o <<"link">>
                 /\ UNCHANGED <<outcome, doneItems>>
            ELSE Continue("Failed", <<"link">>)
    /\ UNCHANGED <<inputVars, other, sent, handles, run, posVars, localVars, db, files, uploads,
                   runUploads, lookupRes, resp, seenItems>>

\* Mutant of Record: the error branch does not leave the iteration, so the
\* pause follows a failed insert too.
RecordThenSleep ==
    /\ pc = "record"
    /\ \E execOk \in BOOLEAN :
         /\ execOk \/ CanFail
         /\ Fault(~execOk)
         /\ LET r == recordItemInDB(db, Endpoint.Id, Item.GUID, hash, execOk)
            IN /\ db' = r.table
               /\ pc' = "sleep" /\ stages' = stages \o <<"record">>
               /\ UNCHANGED <<outcome, doneItems>>
    /\ UNCHANGED <<inputVars, other, sent, handles, run, posVars, localVars, files,
                   uploads, runUploads, lookupRes, resp, seenItems>>

\* main.go:202-206: the dedup record; an error is logged and the entry left.
Record ==
    /\ pc = "record"
    /\ \E execOk \in BOOLEAN :
         /\ execOk \/ CanFail
         /\ Fault(~execOk)
         /\ LET r == recordItemInDB(db, Endpoint.Id, Item.GUID, hash, execOk)
            IN /\ db' = r.table
               /\ IF r.ok
                  THEN /\ pc' = "sleep" /\ stages' = stages \o <<"record">>
                       /\ UNCHANGED <<outcome, doneItems>>
                  ELSE Continue(IF execOk THEN "Conflict" ELSE "Failed",
                                <<"record">>)
    /\ UNCHANGED <<inputVars, other, sent, handles, run, posVars, localVars, files, uploads,
                   runUploads, lookupRes, resp, seenItems>>

\* main.go:208: the pause after a recorded submission.
Sleep ==
    /\ pc = "sleep"
    /\ Continue("Submitted", <<"sleep">>)
    /\ UNCHANGED <<inputVars, other, sent, handles, run, faults, posVars, localVars, db, files,
                   uploads, runUploads, lookupRes, resp, seenItems>>

Next ==
    \/ StartRun \/ ParseFeed \/ EndFeed \/ EndRun \/ LookupItem \/ NextItem
    \/ FetchLink \/ ConvertHtml \/ CacheWriteLink \/ SynthesizeAndCache
    \/ Upload \/ Link \/ Record \/ Sleep

Spec == Init /\ [][Next]_vars

(***************************************************************************)
(* A second process of the same program on the same store and the same      *)
(* feeds, seen from the store: its lookup for an entry, which returned      *)
(* absent, with the submission that follows it, and then its insert.        *)
(***************************************************************************)
\* main.go:97-200 in the second process: the entry is looked up, found
\* absent, fetched or synthesised, uploaded and linked.
OtherSubmit ==
    /\ other.stage = "none"
    /\ db.exists
    /\ \E e \in Entries :
         /\ findItemInDB(db, e[1], e[2], TRUE) = EmptyStr
         /\ other' = [entry |-> e, stage |-> "submitted"]
         /\ uploads' = [uploads EXCEPT ![e] = @ + 1]
    /\ UNCHANGED <<inputVars, run, faults, pc, posVars, localVars, db, files,
                   runUploads, lookupRes, resp, stages, outcome, seenItems,
                   doneItems, sent, handles>>

\* main.go:202-206 in the second process: the insert; a rejected insert is
\* logged and the process goes on.
OtherRecord ==
    /\ other.stage = "submitted"
    /\ LET e == other.entry
           r == recordItemInDB(db, e[1], e[2], genItemHash(e[1], e[2]), TRUE)
       IN /\ db' = r.table
          /\ other' = [other EXCEPT
                          !.stage = IF r.ok THEN "recorded" ELSE "conflict"]
    /\ UNCHANGED <<inputVars, run, faults, pc, posVars, localVars, files,
                   uploads, runUploads, lookupRes, resp, stages, outcome,
                   seenItems, doneItems, sent, handles>>

NextConcurrent == Next \/ OtherSubmit \/ OtherRecord

SpecConcurrent == Init /\ [][NextConcurrent]_vars

(***************************************************************************)
(* Vocabulary of the properties.                                            *)
(***************************************************************************)
\* Stage s was executed for the entry in progress.
Did(s) == Contains(stages, s)
\* Stage s was executed for the entry in progress and did not fail.
Succeeded(s) ==
    \E i \in 1..Len(stages) :
        /\ stages[i] = s
        /\ i < Len(stages) \/ (outcome \notin {"Failed", "Conflict"}
                                /\ pc # "crashed")
\* The store holds a record for the pair.
Recorded(rssId, guid) ==
    \E i \in 1..Len(db.rows) :
        db.rows[i].rss_id = rssId /\ db.rows[i].guid = guid
\* The entry in progress is defined (between its lookup and the next one).
HasEntry == stages # <<>>

(***************************************************************************)
(* C1  Idempotence.  When no environment failure occurred in the first run  *)
(* or the second, a run after the first performs no upload call, no link    *)
(* call and no insert into the dedup store: every entry the first run       *)
(* submitted is skipped by the second.                                      *)
(***************************************************************************)
C1_SecondRunIdle ==
    (run >= 2 /\ faults = 0) =>
        ~Did("upload") /\ ~Did("link") /\ ~Did("record")

(***************************************************************************)
(* C2  At-most-once submission.  Over any sequence of runs, the remote file *)
(* endpoint stores at most one upload for each entry (feedId, guid).        *)
(***************************************************************************)
C2_AtMostOneUpload == \A e \in Entries : uploads[e] <= 1

(***************************************************************************)
(* C2, amended.  Within one run the remote file endpoint stores at most one *)
(* upload for each entry, and no upload is attempted for an entry whose     *)
(* dedup lookup in that run returned its record.                            *)
(***************************************************************************)
C2_OneUploadPerRun ==
    /\ \A e \in Entries : runUploads[e] <= 1
    /\ Did("upload") => lookupRes = EmptyStr

\* An entry left unrecorded by one run is uploaded a second time by a later
\* run.
C2_Witness ==
    \E e \in Entries : uploads[e] = 2 /\ runUploads[e] = 1

(***************************************************************************)
(* C3  At-most-once recording.  In every reachable state the dedup store    *)
(* holds at most one record for each (feedId, guid) pair.                   *)
(***************************************************************************)
C3_OneRecordPerKey ==
    \A i, j \in 1..Len(db.rows) :
        (db.rows[i].rss_id = db.rows[j].rss_id
         /\ db.rows[i].guid = db.rows[j].guid) => i = j

\* An insert was attempted for a pair the store already records (the lookup
\* query had failed) and the table rejected it.
C3_Witness ==
    /\ pc = "iterEnd" /\ outcome = "Conflict"
    /\ Recorded(Endpoint.Id, Item.GUID)

(***************************************************************************)
(* C4  Record only after confirmed submission.  Every change of the dedup   *)
(* store is the creation of the empty table or the insert of one record for *)
(* the entry in progress, made after the upload and the link of that entry  *)
(* succeeded in the same run; no step updates or deletes a record.          *)
(***************************************************************************)
C4_RecordAfterSubmission ==
    [][ db' # db =>
          \/ ~db.exists /\ db' = [db EXCEPT !.exists = TRUE,
                                            !.primaryKey = TRUE,
                                            !.uniqueHash = TRUE]
          \/ /\ pc = "record"
             /\ Succeeded("upload") /\ Succeeded("link")
             /\ uploads[Entry] >= 1
             /\ db' = [db EXCEPT !.rows =
                         Append(@, [rss_id |-> Endpoint.Id,
                                    guid |-> Item.GUID, hash |-> hash])]
      ]_vars

\* A record was just inserted for the entry in progress.
C4_Witness ==
    /\ pc = "sleep" /\ Recorded(Endpoint.Id, Item.GUID)
    /\ Succeeded("upload") /\ Succeeded("link")

(***************************************************************************)
(* C5  Identity hash injective.  The hash computed for the entry in         *)
(* progress differs from the hash of every record of a different            *)
(* (feedId, guid) pair, and equals that of a record of the same pair.       *)
(***************************************************************************)
C5_HashInjective ==
    (HasEntry /\ Did("hash")) =>
        \A i \in 1..Len(db.rows) :
            (<<db.rows[i].rss_id, db.rows[i].guid>> = Entry)
                <=> (db.rows[i].hash = hash)

(***************************************************************************)
(* C6  Failure isolation.  Once a run has started, no failure of a feed     *)
(* parse or of a per-entry stage aborts it: the process never dies inside   *)
(* the loop, every entry whose iteration ended is Skipped, Submitted or     *)
(* Failed, and when the run ends every item of every parsed feed has        *)
(* reached such a state.                                                    *)
(***************************************************************************)
C6_FailureIsolation ==
    /\ pc # "crashed"
    /\ pc = "iterEnd" =>
          outcome \in {"Skipped", "Submitted", "Failed", "Conflict"}
    /\ (pc = "idle" /\ run > 0) => doneItems = seenItems

(***************************************************************************)
(* C7  Content-type gating.  In link-following mode, when the response to   *)
(* the GET has a status other than 200 or a Content-Type containing none of *)
(* text/html, text/plain, text/markdown, application/pdf, the entry fails   *)
(* at the fetch: no cache write, upload, link or record stage runs for it,  *)
(* and the step leaves the content directory, the remote endpoint and the   *)
(* dedup store as they were.                                                *)
(***************************************************************************)
Rejected(r) ==
    /\ r # NoResponse /\ ~r.err
    /\ \/ r.status # 200
       \/ \A t \in {"text/html", "text/plain", "text/markdown",
                    "application/pdf"} : ~Contains(r.ctype, t)

C7_ContentTypeGating ==
    /\ [](Rejected(resp) =>
            /\ pc = "iterEnd" /\ outcome = "Failed"
            /\ stages = <<"lookup", "hash", "fetch">>)
    /\ [][Rejected(resp') => UNCHANGED <<files, uploads, db>>]_vars

\* An application/json response was received and the entry abandoned.
C7_Witness ==
    /\ pc = "iterEnd" /\ resp.status = 200
    /\ resp.ctype = <<"application/json">>
    /\ Endpoint.DataInLink

(***************************************************************************)
(* C8  Skip filters.  In synthesis mode an entry whose description is       *)
(* "<p></p>", or whose title is empty, or whose title contains              *)
(* "[No Title]" is skipped: no synthesis, cache write, upload, link or      *)
(* record stage runs for it, and the step leaves the content directory, the *)
(* remote endpoint and the dedup store as they were.                        *)
(***************************************************************************)
Filtered(item) ==
    \/ item.Description = <<"<p></p>">>
    \/ item.Title = EmptyStr
    \/ \E i \in 1..Len(item.Title) : item.Title[i] = "[No Title]"

C8_SkipFilters ==
    /\ []((HasEntry /\ ~Endpoint.DataInLink /\ Filtered(Item)) =>
            /\ \A st \in {"synth", "cache", "upload", "link", "record",
                          "sleep"} : ~Did(st)
            /\ fileName = NoPath
            /\ pc \in {"resolve", "iterEnd"}
            /\ pc = "iterEnd" => outcome = "Skipped")
    /\ [][(pc = "resolve" /\ ~Endpoint.DataInLink /\ Filtered(Item)) =>
            UNCHANGED <<files, uploads, db>>]_vars

\* An entry with the placeholder description alone (its title is not empty)
\* went through the filter and was skipped.
C8_Witness ==
    /\ pc = "iterEnd" /\ Did("filter") /\ ~Endpoint.DataInLink
    /\ Item.Description = <<"<p></p>">> /\ Item.Title # EmptyStr
    /\ outcome = "Skipped"

(***************************************************************************)
(* C9  Mode exclusivity.  For an entry of a feed with followLink = false no *)
(* GET of its link is issued; for an entry of a feed with followLink = true *)
(* neither the skip filters nor the synthesis run; an entry that got past   *)
(* content resolution went through exactly one of the two modes.            *)
(***************************************************************************)
C9_ModeExclusive ==
    HasEntry =>
        /\ ~Endpoint.DataInLink => (~Did("fetch") /\ resp = NoResponse)
        /\ Endpoint.DataInLink => (~Did("filter") /\ ~Did("synth"))
        /\ Did("cache") => (Did("fetch") # Did("synth"))

\* An entry of the link-following feed that the synthesis filters would have
\* skipped was fetched and cached.
C9_Witness ==
    /\ pc = "upload" /\ Endpoint.DataInLink /\ Filtered(Item)
    /\ Did("fetch")

(***************************************************************************)
(* C10  Retry across runs.  An entry whose processing failed at fetch,      *)
(* convert, cache write, upload or link has no record in the dedup store    *)
(* when its iteration ends, so the next run that reaches it starts it again *)
(* at the hash computation; and an entry for which upload and link          *)
(* succeeded, and whose insert met no environment error, is submitted and   *)
(* recorded.                                                                *)
(***************************************************************************)
C10_RetryAcrossRuns ==
    /\ (pc = "iterEnd" /\ outcome = "Failed" /\ ~Did("record")) =>
          ~Recorded(Endpoint.Id, Item.GUID)
    /\ pc = "resolve" => stages = <<"lookup", "hash">>
    /\ (pc = "iterEnd" /\ Succeeded("link") /\ outcome # "Failed") =>
          (outcome = "Submitted" /\ Recorded(Endpoint.Id, Item.GUID))

(***************************************************************************)
(* C11  The stages of an entry run in the order lookup, hash, content       *)
(* resolution (fetch, or filter and synthesis), normalisation where it      *)
(* applies, cache write, upload, link, record, pause; a stage runs only     *)
(* when the stages before it that apply to the entry have succeeded; and    *)
(* the loop moves to another entry only from an entry's terminal state.     *)
(***************************************************************************)
StageRank(s) ==
    CASE s = "lookup" -> 1
      [] s = "hash" -> 2
      [] s \in {"fetch", "filter"} -> 3
      [] s \in {"convert", "synth"} -> 4
      [] s = "cache" -> 5
      [] s = "upload" -> 6
      [] s = "link" -> 7
      [] s = "record" -> 8
      [] s = "sleep" -> 9
StagesInOrder ==
    /\ \A i, j \in 1..Len(stages) :
          i < j => StageRank(stages[i]) < StageRank(stages[j])
    /\ Did("hash") => Did("lookup") /\ lookupRes = EmptyStr
    /\ Did("fetch") \/ Did("filter") => Did("hash") /\ hash # EmptyStr
    /\ Did("convert") => Did("fetch") /\ fetchContent(resp).ok
    /\ Did("synth") => Did("filter") /\ ~Filtered(Item)
    /\ Did("cache") => Did("synth") \/ (Did("fetch") /\ fetchContent(resp).ok)
    /\ (/\ Did("cache") /\ Did("fetch") /\ Endpoint.HtmlToMarkdown
        /\ fetchContent(resp).contentType = <<"text/html">>) => Did("convert")
    /\ Did("upload") => Did("cache") /\ fileName \in DOMAIN files
    /\ Did("link") => Did("upload") /\ sent.res = "ok"
                                    /\ runUploads[Entry] >= 1
    /\ Did("record") => Did("link")
    /\ Did("sleep") => Did("record") /\ Recorded(Endpoint.Id, Item.GUID)
C12_RecordedNotReprocessed ==
    pc \in {"resolve", "convert", "cache", "upload", "link", "record"} =>
        ~Recorded(Endpoint.Id, Item.GUID)

(***************************************************************************)
(* C13  As stated: an entry ends with the pause exactly when its upload     *)
(* and link both succeeded.                                                 *)
(***************************************************************************)
C13_PauseAfterSubmission ==
    pc = "iterEnd" => (Did("sleep") <=> Succeeded("link"))

(***************************************************************************)
(* C13  Amended: an entry ends with the pause exactly when its upload, its  *)
(* link and the insert of its record all succeeded; the pause is the last   *)
(* step of the entry, before the loop moves on; an entry that was skipped   *)
(* or that failed at any stage, the insert included, ends without it.       *)
(***************************************************************************)
PauseIffRecorded ==
    /\ pc = "sleep" => Did("record") /\ Recorded(Endpoint.Id, Item.GUID)
    /\ pc = "iterEnd" =>
         /\ Did("sleep") =>
              /\ stages[Len(stages)] = "sleep"
              /\ Succeeded("upload") /\ Succeeded("link") /\ Did("record")
              /\ sent.res = "ok"
              /\ Recorded(Endpoint.Id, Item.GUID)
         /\ (Did("record") /\ outcome \notin {"Failed", "Conflict"}) =>
              Did("sleep")
         /\ outcome \in {"Skipped", "Failed", "Conflict"} => ~Did("sleep")
C13_PauseAfterRecord ==
    /\ []PauseIffRecorded
    /\ [][pc = "sleep" => (pc' = "iterEnd" /\ posVars' = posVars)]_vars
C13_Witness ==
    /\ pc = "iterEnd" /\ Did("sleep") /\ outcome = "Submitted"
    /\ itemIdx < Len(feedItems[feedIdx])

(***************************************************************************)
(* C14  An upload whose response carries no string `id` ends the entry as   *)
(* a failed submission: no link request, no record, and the loop goes on    *)
(* to the next entry.                                                       *)
(***************************************************************************)
C14_MissingIdIsError ==
    sent.res = "noId" =>
        /\ pc = "iterEnd" /\ outcome = "Failed"
        /\ ~Did("link") /\ ~Did("record")

(***************************************************************************)
(* C15  Right after a successful cache write the file at the entry's path   *)
(* holds exactly the payload just written, whatever it held before.         *)
(***************************************************************************)
C15_CacheHoldsPayload ==
    pc = "upload" => (fileName \in DOMAIN files /\ files[fileName] = content)

(***************************************************************************)
(* C16  The file name declared in the upload is the base name               *)
(* `<feedName> <publishedTimestamp> <hashPrefix><extension>` of the cache   *)
(* file just written, with no content-directory component.                  *)
(***************************************************************************)
BaseName(path) == [path EXCEPT !.dir = ""]
C16_DeclaredBaseName ==
    sent.res # "none" =>
        /\ sent.name = BaseName(fileName)
        /\ sent.name.dir = ""
        /\ sent.name.name = Endpoint.Name
        /\ sent.name.stamp = Item.PublishedParsed
        /\ sent.name.prefix = HashPrefix(hash)

(***************************************************************************)
(* C17  With a single process on the store, an insert issued after the      *)
(* lookup returned absent is never rejected by UNIQUE(hash): an entry       *)
(* whose insert met a constraint has its own record already, and every      *)
(* entry uploaded and linked whose insert was executed ends up recorded.    *)
(***************************************************************************)
C17_NoHashConflict ==
    (pc = "iterEnd" /\ lookupRes = EmptyStr /\ Succeeded("link")
       /\ outcome # "Failed") =>
        Recorded(Endpoint.Id, Item.GUID)

(***************************************************************************)
(* C18  When the two processes have both submitted the same entry and both  *)
(* executed its insert, exactly one of the two inserts succeeded, the       *)
(* process whose insert was rejected goes on with its loop, and the store   *)
(* holds exactly one record of the entry.                                   *)
(***************************************************************************)
RecordsOf(e) ==
    {i \in 1..Len(db.rows) : db.rows[i].rss_id = e[1] /\ db.rows[i].guid = e[2]}
BothInserted ==
    /\ other.stage \in {"recorded", "conflict"}
    /\ pc \in {"sleep", "iterEnd"} /\ Did("record") /\ outcome # "Failed"
    /\ Entry = other.entry
C18_OneInsertWins ==
    BothInserted =>
        /\ (other.stage = "recorded") # (pc = "sleep" \/ outcome = "Submitted")
        /\ other.stage = "recorded" => (pc = "iterEnd" /\ outcome = "Conflict")
        /\ Cardinality(RecordsOf(Entry)) = 1

(***************************************************************************)
(* C19  Cache file handles do not accumulate: when the loop reaches an      *)
(* entry no handle opened for an earlier entry is still open, and at no     *)
(* time is more than one handle open.                                       *)
(***************************************************************************)
C19_HandlesDoNotAccumulate ==
    /\ handles <= 1
    /\ pc = "item" => handles = 0

====
